---- MODULE Spec2Model ----
(***************************************************************************)
(* A model of ccmlib/dse_node.py (class DseNode): the start()/stop()       *)
(* lifecycle of one DSE node and its datastax-agent, the dse.yaml merge    *)
(* of _update_dse_yaml and the XML property merge of                       *)
(* set_xml_configuration_options.                                          *)
(*                                                                         *)
(* The lifecycle part follows the POSIX branches of start()                *)
(* (common.is_win() false).  The specifications share the variables:       *)
(*   Spec       the lifecycle (start, stop, the OS and the peers around it)*)
(*   SpecLaunch start() with the workloads, kerberos and the tool runners  *)
(*   SpecPeers  start() in a cluster whose other nodes start and stop      *)
(*   SpecYaml   _update_dse_yaml applied to bounded documents              *)
(*   SpecImport import_dse_config_files after the options are set          *)
(*   SpecXml    set_xml_configuration_options applied to bounded lists     *)
(***************************************************************************)
EXTENDS Integers, Sequences, FiniteSets, TLC

VARIABLES
    cluster,        \* the cluster's settings read by the node: hasOpscenter
    node,           \* the node's settings: network_interfaces, agent_dir, agent_fault
    alive,          \* the node processes the OS holds alive (their pids)
    ready,          \* the processes whose log shows the CQL listener, to the call in progress
    pid,            \* self.pid, the recorded pid (None when not recorded)
    spawned,        \* how many node processes start() has spawned so far
    launcher,       \* the node's own copy of bin/dse: "stale", or "fresh" once copied back
    agents,         \* the agent processes the OS holds alive
    agentsSpawned,  \* how many agent processes _start_agent has spawned so far
    agentPidFile,   \* datastax-agent.pid: the pid written in it (None when no file)
    address_yaml,   \* the agent's conf/address.yaml: "none", "generated" or "edited"
    log4j,          \* the agent's conf/log4j.properties: "none", "generated" or "edited"
    noticed,        \* the peers whose log shows this node alive after the call's mark
    pc,             \* where the controller is inside start() or stop()
    op,             \* the call in progress or the last one: "none", "start", "stop", a tool
    opts,           \* the arguments of the call in progress and the listeners it meets
    proc,           \* start()'s local `process` (None before the spawn)
    marks,          \* start()'s local `marks`: the peers marked before the spawn
    ret,            \* how the last call ended: "running", "ok", "None" or the error raised
    events,         \* what the call has done so far, in order
    calls,          \* how many calls have been made
    cmd,            \* the args and env start() gave to Popen for the process of this call
    tool_proc,      \* the process of the tool runner in progress: "none", "running", "exited"
    tool_exit,      \* the exit code of that process ("none" while it has none)
    peers_up,       \* the other nodes that are running, where they are followed (SpecPeers)
    conf_file,      \* resources/dse/conf/dse.yaml: the mapping yaml.load reads from it
    install_conf,   \* the dse.yaml of the install directory, which copy_directory copies
    cluster_options,\* cluster._dse_config_options
    node_options,   \* self._dse_config_options
    yaml_base,      \* dse.yaml as it was before the first _update_dse_yaml()
    yaml_once,      \* dse.yaml as the first _update_dse_yaml() left it
    yaml_err,       \* what the last _update_dse_yaml() raised ("ok" when nothing)
    yaml_runs,      \* how many times _update_dse_yaml() has run
    site_xml,       \* an XML property file: its property elements, in document order
    xml_values,     \* the values passed to set_xml_configuration_options, in iteration order
    xml_base,       \* the property file as it was before the first call
    xml_once,       \* the property file as the first call left it
    xml_runs        \* how many times set_xml_configuration_options() has run

agentFiles == <<address_yaml, log4j>>

lifeVars == <<cluster, node, alive, ready, pid, spawned, launcher, agents,
              agentsSpawned, agentPidFile, agentFiles, noticed, pc, op, opts, proc,
              marks, ret, events, calls, cmd>>

toolVars == <<tool_proc, tool_exit>>

peerVars == <<peers_up>>

yamlVars == <<conf_file, install_conf, cluster_options, node_options, yaml_base, yaml_once, yaml_err,
              yaml_runs>>

xmlVars == <<site_xml, xml_values, xml_base, xml_once, xml_runs>>

vars == <<lifeVars, toolVars, peerVars, yamlVars, xmlVars>>

(***************************************************************************)
(* Bounds.                                                                 *)
(***************************************************************************)
MaxCalls == 2
MaxProcs == 2
MaxRuns == 2

(***************************************************************************)
(* Values.  A pid that is not recorded is None; an option or an interface  *)
(* that is Python's None is the string "None".                             *)
(***************************************************************************)
None == 0
Roles == {"thrift", "binary"}
Peers == {"node2"}
ReplaceAddresses == {"None", "127.0.0.9"}
AgentFaults == {"none", "conf", "bin"}
Authns == {"none", "kerberos"}
Tags == {"hadoop", "solr", "spark", "cfs"}

\* self.workload: None, or the tags it holds.
NoWorkload == [none |-> TRUE, tags |-> {}]
Workloads == {NoWorkload} \cup {[none |-> FALSE, tags |-> W] : W \in SUBSET Tags}

KerberosTools == {"kinit", "klist", "kdestroy"}
Tools == {"dsetool", "hadoop", "hive", "pig", "sqoop", "spark"} \cup KerberosTools
ExitCodes == {"0", "1"}

StartArgs ==
    [no_wait: BOOLEAN, update_pid: BOOLEAN, wait_other_notice: BOOLEAN,
     wait_for_binary_proto: BOOLEAN, replace_address: ReplaceAddresses]

StopArgs == [gently: BOOLEAN]

\* No call is in progress: the arguments and the locals of the last one are gone.
NoCall == [args |-> <<>>, busy |-> {}]

\* No process of start() is there whose command line and environment are held.
NoCmd == [args |-> <<>>, env |-> <<>>]

Append2(s, a, b) == Append(Append(s, a), b)

Has(s, e) == \E i \in 1..Len(s) : s[i] = e

\* The place of e's first occurrence in s, 0 when it is not in s.
IndexOf(s, e) ==
    IF Has(s, e) THEN CHOOSE i \in 1..Len(s) : s[i] = e /\ \A j \in 1..(i-1) : s[j] # e
    ELSE 0

(***************************************************************************)
(* Node.is_running(): the recorded pid is the pid of a live process.       *)
(***************************************************************************)
is_running == pid # None /\ pid \in alive

\* PortConflict with the replace_address test inverted.
PortConflictInverted(replace_address, busy) ==
    \E itf \in Roles :
        /\ node.network_interfaces[itf] # "None"
        /\ replace_address # "None"
        /\ itf \in busy

(***************************************************************************)
(* start(), lines 114-116: the loop over network_interfaces that calls     *)
(* common.check_socket_available(itf), which raises when the address has a *)
(* listener.  busy is the set of interfaces that have one.                 *)
(***************************************************************************)
PortConflict(replace_address, busy) ==
    \E itf \in Roles :
        /\ node.network_interfaces[itf] # "None"
        /\ replace_address = "None"
        /\ itf \in busy

\* The interfaces that are bound, on which a listener can sit.
Bound == {itf \in Roles : node.network_interfaces[itf] # "None"}

(***************************************************************************)
(* The readiness waits that follow the pid update, in the code's order:    *)
(* wait_other_notice (213-215), wait_for_binary_proto (217-221), then the  *)
(* agent start and the return (223-226).                                   *)
(***************************************************************************)
AfterOther(a) == IF a.wait_for_binary_proto THEN "wait_binary" ELSE "return"
AfterPid(a) == IF a.wait_other_notice THEN "wait_other" ELSE AfterOther(a)

LifeInit ==
    /\ cluster \in [hasOpscenter : BOOLEAN, authn : Authns]
    /\ node \in [network_interfaces : {[thrift |-> "127.0.0.1", binary |-> "None"]},
                  agent_dir : BOOLEAN,
                  agent_fault : AgentFaults,
                  workload : {NoWorkload}]
    /\ node.agent_dir = FALSE => node.agent_fault = "none"
    /\ node.agent_dir => cluster.hasOpscenter  \* the directory is _copy_agent()'s copy (26-27)
    /\ alive = {}
    /\ ready = {}
    /\ pid = None
    /\ spawned = 0
    /\ launcher = "stale"
    /\ agents = {}
    /\ agentsSpawned = 0
    /\ agentPidFile = None
    /\ address_yaml = "none"
    /\ log4j = "none"
    /\ noticed = {}
    /\ pc = "idle"
    /\ op = "none"
    /\ opts = NoCall
    /\ proc = None
    /\ marks = {}
    /\ ret = "ok"
    /\ events = <<>>
    /\ calls = 0
    /\ cmd = NoCmd

\* No tool runner has been called.
ToolIdle ==
    /\ tool_proc = "none"
    /\ tool_exit = "none"

\* The peers are not followed: which of them run is an input of start_launch.
PeersIdle == peers_up = {}

\* The files as the lifecycle leaves them: it reads and writes none of them.
YamlIdle ==
    /\ conf_file = <<>>
    /\ install_conf = <<>>
    /\ cluster_options = <<>>
    /\ node_options = <<>>
    /\ yaml_base = <<>>
    /\ yaml_once = <<>>
    /\ yaml_err = "ok"
    /\ yaml_runs = 0

XmlIdle ==
    /\ site_xml = <<>>
    /\ xml_values = <<>>
    /\ xml_base = <<>>
    /\ xml_once = <<>>
    /\ xml_runs = 0

\* The lifecycle is followed in a cluster without kerberos: the authentication
\* mode is read for the environment of the process and by the kerberos tools only.
Init == LifeInit /\ cluster.authn = "none" /\ ToolIdle /\ PeersIdle /\ YamlIdle /\ XmlIdle

(***************************************************************************)
(* A call returns or raises: its arguments and locals are gone, and with   *)
(* them what the logs showed to its waits.                                 *)
(***************************************************************************)
Returns ==
    /\ pc' = "idle"
    /\ opts' = NoCall
    /\ proc' = None
    /\ cmd' = NoCmd
    /\ marks' = {}
    /\ noticed' = {}
    /\ ready' = {}

\* The call goes on to its step s.
GoesOn(s) ==
    /\ pc' = s
    /\ UNCHANGED <<opts, proc, cmd, marks, noticed, ready>>

(***************************************************************************)
(* start() is entered: nothing is done yet.                                *)
(*   a     the arguments                                                   *)
(*   busy  the bound interfaces that have a conflicting listener (looked   *)
(*         for only when replace_address is None)                          *)
(***************************************************************************)
start(a, busy) ==
    /\ UNCHANGED <<yamlVars, xmlVars, toolVars, peerVars>>
    /\ UNCHANGED agentFiles
    /\ UNCHANGED cmd
    /\ pc = "idle"
    /\ calls < MaxCalls
    /\ calls' = calls + 1
    /\ op' = "start"
    /\ opts' = [args |-> a, busy |-> busy]
    /\ pc' = "check"
    /\ ret' = "running"
    /\ events' = <<>>
    /\ UNCHANGED <<cluster, node, alive, ready, pid, spawned, launcher, agents,
                   agentsSpawned, agentPidFile, noticed, proc, marks>>

\* workload_flags as an if/elif chain: the flag of the first tag found only.
workload_flags_first_only(workload) ==
    IF workload.none THEN <<>>
    ELSE IF "hadoop" \in workload.tags THEN <<"-t">>
    ELSE IF "solr" \in workload.tags THEN <<"-s">>
    ELSE IF "spark" \in workload.tags THEN <<"-k">>
    ELSE IF "cfs" \in workload.tags THEN <<"-c">>
    ELSE <<>>

(***************************************************************************)
(* start(), lines 154-162: the flags appended for self.workload.           *)
(***************************************************************************)
workload_flags(workload) ==
    IF workload.none THEN <<>>
    ELSE (IF "hadoop" \in workload.tags THEN <<"-t">> ELSE <<>>)
         \o (IF "solr" \in workload.tags THEN <<"-s">> ELSE <<>>)
         \o (IF "spark" \in workload.tags THEN <<"-k">> ELSE <<>>)
         \o (IF "cfs" \in workload.tags THEN <<"-c">> ELSE <<>>)

(***************************************************************************)
(* start(), lines 152-183: the command line, for the defaults of           *)
(* join_ring, replace_token, use_jna and jvm_args.                         *)
(***************************************************************************)
start_args(workload, a) ==
    <<"dse", "cassandra">> \o workload_flags(workload)
        \o <<"-p", "-Dcassandra.join_ring">>
        \o (IF a.replace_address # "None" THEN <<"-Dcassandra.replace_address">>
            ELSE <<>>)

\* common.make_dse_env(): the environment start() begins with.
BaseEnv == [DSE_HOME |-> "install"]

\* The two entries of lines 178 and 181, which point at the cluster's krb5.conf.
Krb5JvmOpts == "-Djava.security.krb5.conf=cluster/krb5.conf"
Krb5Config == "cluster/krb5.conf"

\* start_env with the entries set whatever the authentication mode.
start_env_always(authn) ==
    [k \in DOMAIN BaseEnv \cup {"JVM_OPTS", "KRB5_CONFIG"} |->
        IF k = "JVM_OPTS" THEN Krb5JvmOpts
        ELSE IF k = "KRB5_CONFIG" THEN Krb5Config
        ELSE BaseEnv[k]]

(***************************************************************************)
(* start(), lines 146 and 177-181: the environment given to Popen, for     *)
(* debug False.                                                            *)
(***************************************************************************)
start_env(authn) ==
    IF authn = "kerberos"
    THEN [k \in DOMAIN BaseEnv \cup {"JVM_OPTS", "KRB5_CONFIG"} |->
            IF k = "JVM_OPTS" THEN Krb5JvmOpts
            ELSE IF k = "KRB5_CONFIG" THEN Krb5Config
            ELSE BaseEnv[k]]
    ELSE BaseEnv

(***************************************************************************)
(* start(), lines 111-192: the two precondition checks, the marks, the     *)
(* copy of the launcher and the spawn, for profile_options None.           *)
(*   up    the peers that are running (read under wait_other_notice only)  *)
(* Errors: "AlreadyRunning" is the NodeError of line 112, "PortUnavailable"*)
(* what check_socket_available raises.                                     *)
(***************************************************************************)
start_launch(up) ==
    /\ UNCHANGED <<yamlVars, xmlVars, toolVars, peerVars>>
    /\ UNCHANGED agentFiles
    /\ pc = "check"
    /\ UNCHANGED <<cluster, node, pid, agents, agentsSpawned, agentPidFile, op, calls>>
    /\ IF is_running
       THEN /\ ret' = "AlreadyRunning"
            /\ Returns
            /\ UNCHANGED <<alive, spawned, launcher, events>>
       ELSE IF PortConflict(opts.args.replace_address, opts.busy)
       THEN /\ ret' = "PortUnavailable"
            /\ Returns
            /\ UNCHANGED <<alive, spawned, launcher, events>>
       ELSE /\ spawned < MaxProcs
            /\ marks' = IF opts.args.wait_other_notice THEN up ELSE {}
            /\ launcher' = "fresh"
            /\ spawned' = spawned + 1
            /\ proc' = spawned + 1
            /\ alive' = alive \cup {spawned + 1}
            /\ cmd' = [args |-> start_args(node.workload, opts.args),
                       env |-> start_env(cluster.authn)]
            /\ events' = (IF opts.args.wait_other_notice THEN <<"mark">> ELSE <<>>)
                          \o <<"copy", "chmod", "spawn">>
            /\ pc' = "update_pid"
            /\ UNCHANGED <<opts, noticed, ready, ret>>

(***************************************************************************)
(* Node.is_running() right after Node._update_pid(process) has recorded    *)
(* the pid of the spawned process p.                                       *)
(***************************************************************************)
is_running_as(p) == p # None /\ p \in alive

\* StartFailed with the liveness test made under no_wait only.
StartFailedUnderNoWait(a, running) == a.update_pid /\ a.no_wait /\ ~running

(***************************************************************************)
(* start(), lines 200-211: whether the NodeError of line 211 is raised.    *)
(* Only under update_pid is the pid recorded and the liveness looked at.   *)
(***************************************************************************)
StartFailed(a, running) == a.update_pid /\ ~running

(***************************************************************************)
(* start(), lines 200-211: with update_pid, sleep (no_wait) or drain the   *)
(* process's output, record the pid (Node._update_pid) and raise the       *)
(* NodeError of line 211, "StartFailed", when the node is not running.     *)
(***************************************************************************)
start_update_pid ==
    /\ UNCHANGED <<yamlVars, xmlVars, toolVars, peerVars>>
    /\ UNCHANGED agentFiles
    /\ pc = "update_pid"
    /\ UNCHANGED <<cluster, node, alive, spawned, launcher, agents,
                   agentsSpawned, agentPidFile, op, calls>>
    /\ pid' = IF opts.args.update_pid THEN proc ELSE pid
    /\ events' = IF opts.args.update_pid
                 THEN Append2(Append(events, IF opts.args.no_wait THEN "sleep" ELSE "drain"),
                              "pid", IF is_running_as(proc) THEN "alive" ELSE "dead")
                 ELSE events
    /\ IF StartFailed(opts.args, is_running_as(proc))
       THEN Returns /\ ret' = "StartFailed"
       ELSE GoesOn(AfterPid(opts.args)) /\ ret' = ret

(***************************************************************************)
(* start(), lines 213-215: node.watch_log_for_alive(self, from_mark=mark)  *)
(* for each marked peer; it returns once the peer's log shows this node    *)
(* alive.                                                                  *)
(***************************************************************************)
\* The loop of lines 214-215 ending at the first peer whose log shows the node.
others_noticed_any == marks = {} \/ marks \cap noticed # {}

\* The loop of lines 214-215 is over: every marked peer's log has shown the node.
others_noticed == marks \subseteq noticed

start_wait_other_notice ==
    /\ UNCHANGED <<yamlVars, xmlVars, toolVars, peerVars>>
    /\ UNCHANGED agentFiles
    /\ pc = "wait_other"
    /\ others_noticed
    /\ GoesOn(AfterOther(opts.args))
    /\ events' = Append(events, "wait_other")
    /\ UNCHANGED <<cluster, node, alive, pid, spawned, launcher, agents,
                   agentsSpawned, agentPidFile, op, ret, calls>>

(***************************************************************************)
(* start(), lines 217-221: watch_log_for("Starting listening for CQL       *)
(* clients"); it returns once the node's log shows the line.               *)
(***************************************************************************)
start_wait_for_binary_proto ==
    /\ UNCHANGED <<yamlVars, xmlVars, toolVars, peerVars>>
    /\ UNCHANGED agentFiles
    /\ pc = "wait_binary"
    /\ proc \in ready
    /\ GoesOn("return")
    /\ events' = Append(events, "wait_binary")
    /\ UNCHANGED <<cluster, node, alive, pid, spawned, launcher, agents,
                   agentsSpawned, agentPidFile, op, ret, calls>>

\* write_agent_address_yaml with the file written whether it is there or not.
write_agent_address_yaml_always(file) == "generated"

(***************************************************************************)
(* _write_agent_address_yaml(), lines 397-412: address.yaml is written     *)
(* only when it is not there.                                              *)
(***************************************************************************)
write_agent_address_yaml(file) == IF file = "none" THEN "generated" ELSE file

\* _write_agent_log4j_properties(), lines 414-426: the file is opened 'w+' and
\* written, whatever it held.
write_agent_log4j_properties(file) == "generated"

(***************************************************************************)
(* _start_agent(), lines 374-380.  Nothing when the agent directory is not *)
(* there; else the two descriptor files are written (open() raises when    *)
(* conf cannot be written: agent_fault "conf") and the agent binary is     *)
(* spawned (Popen raises when it cannot be: agent_fault "bin").  Nothing   *)
(* in _start_agent or in start() catches either error.                     *)
(* The outcome: the error raised ("ok" when none), the events, and whether *)
(* an agent process was spawned.                                           *)
(***************************************************************************)
start_agent ==
    IF ~node.agent_dir
    THEN [err |-> "ok", ev |-> <<>>, spawn |-> FALSE,
          address |-> address_yaml, log4j |-> log4j]
    ELSE IF node.agent_fault = "conf"
    THEN [err |-> "AgentError", ev |-> <<>>, spawn |-> FALSE,
          address |-> address_yaml, log4j |-> log4j]
    ELSE IF node.agent_fault = "bin"
    THEN [err |-> "AgentError", ev |-> <<"agent_conf">>, spawn |-> FALSE,
          address |-> write_agent_address_yaml(address_yaml),
          log4j |-> write_agent_log4j_properties(log4j)]
    ELSE [err |-> "ok", ev |-> <<"agent_conf", "agent_spawn">>, spawn |-> TRUE,
          address |-> write_agent_address_yaml(address_yaml),
          log4j |-> write_agent_log4j_properties(log4j)]

(***************************************************************************)
(* start(), lines 223-226: the agent start when the cluster has opscenter, *)
(* and the return.                                                         *)
(***************************************************************************)
start_return ==
    /\ UNCHANGED <<yamlVars, xmlVars, toolVars, peerVars>>
    /\ pc = "return"
    /\ Returns
    /\ UNCHANGED <<cluster, node, alive, pid, spawned, launcher, agentPidFile, op, calls>>
    /\ IF cluster.hasOpscenter
       THEN LET r == start_agent IN
            /\ ret' = r.err
            /\ events' = events \o r.ev
            /\ agents' = IF r.spawn THEN agents \cup {agentsSpawned + 1} ELSE agents
            /\ agentsSpawned' = IF r.spawn THEN agentsSpawned + 1 ELSE agentsSpawned
            /\ address_yaml' = r.address
            /\ log4j' = r.log4j
       ELSE /\ ret' = "ok"
            /\ UNCHANGED <<events, agents, agentsSpawned, agentFiles>>

\* StopSteps with the agent stopped before the node.
StopStepsAgentFirst ==
    IF cluster.hasOpscenter THEN <<"stop_agent", "stop_node">> ELSE <<"stop_node">>

(***************************************************************************)
(* stop(), lines 228-232: Node.stop() first, then _stop_agent() when the   *)
(* cluster has opscenter.                                                  *)
(***************************************************************************)
StopSteps ==
    IF cluster.hasOpscenter THEN <<"stop_node", "stop_agent">> ELSE <<"stop_node">>

\* The step after step s of stop(), "idle" after the last.
AfterStop(s) ==
    IF IndexOf(StopSteps, s) < Len(StopSteps) THEN StopSteps[IndexOf(StopSteps, s) + 1]
    ELSE "idle"

\* stop() is entered: nothing is done yet.
stop(a) ==
    /\ UNCHANGED <<yamlVars, xmlVars, toolVars, peerVars>>
    /\ UNCHANGED agentFiles
    /\ UNCHANGED cmd
    /\ pc = "idle"
    /\ calls < MaxCalls
    /\ calls' = calls + 1
    /\ op' = "stop"
    /\ opts' = [args |-> a, busy |-> {}]
    /\ pc' = StopSteps[1]
    /\ ret' = "running"
    /\ events' = <<>>
    /\ UNCHANGED <<cluster, node, alive, ready, pid, spawned, launcher, agents,
                   agentsSpawned, agentPidFile, noticed, proc, marks>>

(***************************************************************************)
(* Node.stop() (line 229): when the node is running, its pid is signalled  *)
(* (SIGTERM when gently, else SIGKILL) and waited on.                      *)
(***************************************************************************)
stop_node ==
    /\ UNCHANGED <<yamlVars, xmlVars, toolVars, peerVars>>
    /\ UNCHANGED agentFiles
    /\ pc = "stop_node"
    /\ IF AfterStop("stop_node") = "idle"
       THEN Returns /\ ret' = "ok"
       ELSE GoesOn(AfterStop("stop_node")) /\ ret' = ret
    /\ IF is_running
       THEN /\ alive' = alive \ {pid}
            /\ events' = Append2(events, "node_signal", "node_wait")
       ELSE UNCHANGED <<alive, events>>
    /\ UNCHANGED <<cluster, node, pid, spawned, launcher, agents, agentsSpawned,
                   agentPidFile, op, calls>>

\* stop_agent with the OSError of signalling a dead process left to propagate.
stop_agent_raises_when_gone ==
    IF ~node.agent_dir
    THEN [err |-> "UnboundLocalError", ev |-> <<>>, kill |-> None, remove |-> FALSE]
    ELSE IF agentPidFile = None
    THEN [err |-> "ok", ev |-> <<>>, kill |-> None, remove |-> FALSE]
    ELSE IF agentPidFile \in agents
    THEN [err |-> "ok", ev |-> <<"agent_read", "agent_signal", "agent_remove">>,
          kill |-> agentPidFile, remove |-> TRUE]
    ELSE [err |-> "OSError", ev |-> <<"agent_read", "agent_signal">>,
          kill |-> None, remove |-> FALSE]

(***************************************************************************)
(* _stop_agent(), lines 382-395.  pidfile is assigned only when the agent  *)
(* directory exists (385) and read by os.path.exists(pidfile) whether it   *)
(* does or not (386): without the directory the name is unbound and        *)
(* Python raises UnboundLocalError.  With the pid file there: its pid is   *)
(* read, sent SIGKILL (the OSError of a process that is gone is passed     *)
(* over: "agent_gone") and the file removed.                               *)
(***************************************************************************)
stop_agent ==
    IF ~node.agent_dir
    THEN [err |-> "UnboundLocalError", ev |-> <<>>, kill |-> None, remove |-> FALSE]
    ELSE IF agentPidFile = None
    THEN [err |-> "ok", ev |-> <<>>, kill |-> None, remove |-> FALSE]
    ELSE IF agentPidFile \in agents
    THEN [err |-> "ok", ev |-> <<"agent_read", "agent_signal", "agent_remove">>,
          kill |-> agentPidFile, remove |-> TRUE]
    ELSE [err |-> "ok", ev |-> <<"agent_read", "agent_signal", "agent_gone", "agent_remove">>,
          kill |-> None, remove |-> TRUE]

\* stop(), lines 230-232: the call of _stop_agent() and the return.
stop_agent_step ==
    /\ UNCHANGED <<yamlVars, xmlVars, toolVars, peerVars>>
    /\ UNCHANGED agentFiles
    /\ pc = "stop_agent"
    /\ LET r == stop_agent IN
       /\ IF r.err = "ok" /\ AfterStop("stop_agent") # "idle"
          THEN GoesOn(AfterStop("stop_agent")) /\ ret' = ret
          ELSE Returns /\ ret' = r.err
       /\ events' = Append(events, "agent_stop") \o r.ev
       /\ agents' = agents \ {r.kill}
       /\ agentPidFile' = IF r.remove THEN None ELSE agentPidFile
    /\ UNCHANGED <<cluster, node, alive, pid, spawned, launcher, agentsSpawned, op, calls>>

(***************************************************************************)
(* The world around the controller: a node process exits, the process      *)
(* start() spawned reaches its CQL listener and logs it, a marked peer     *)
(* logs the node alive, an agent writes its pid file (a later agent over   *)
(* an earlier one's) or exits.                                             *)
(***************************************************************************)
ProcExit(p) ==
    /\ UNCHANGED <<yamlVars, xmlVars, toolVars, peerVars>>
    /\ UNCHANGED agentFiles
    /\ UNCHANGED cmd
    /\ p \in alive
    /\ alive' = alive \ {p}
    /\ UNCHANGED <<cluster, node, ready, pid, spawned, launcher, agents, agentsSpawned,
                   agentPidFile, noticed, pc, op, opts, proc, marks, ret, events, calls>>

ProcReady(p) ==
    /\ UNCHANGED <<yamlVars, xmlVars, toolVars, peerVars>>
    /\ UNCHANGED agentFiles
    /\ UNCHANGED cmd
    /\ p = proc
    /\ p \in alive \ ready
    /\ ready' = ready \cup {p}
    /\ UNCHANGED <<cluster, node, alive, pid, spawned, launcher, agents, agentsSpawned,
                   agentPidFile, noticed, pc, op, opts, proc, marks, ret, events, calls>>

PeerNotice(n) ==
    /\ UNCHANGED <<yamlVars, xmlVars, toolVars, peerVars>>
    /\ UNCHANGED agentFiles
    /\ UNCHANGED cmd
    /\ op = "start"
    /\ pc # "idle"
    /\ proc \in alive
    /\ n \in marks \ noticed
    /\ noticed' = noticed \cup {n}
    /\ UNCHANGED <<cluster, node, alive, ready, pid, spawned, launcher, agents,
                   agentsSpawned, agentPidFile, pc, op, opts, proc, marks, ret, events,
                   calls>>

AgentWritePid(a) ==
    /\ UNCHANGED <<yamlVars, xmlVars, toolVars, peerVars>>
    /\ UNCHANGED agentFiles
    /\ UNCHANGED cmd
    /\ a \in agents
    /\ agentPidFile < a
    /\ agentPidFile' = a
    /\ UNCHANGED <<cluster, node, alive, ready, pid, spawned, launcher, agents,
                   agentsSpawned, noticed, pc, op, opts, proc, marks, ret, events, calls>>

\* The operator edits (or writes) address.yaml or log4j.properties, between two
\* calls: the files are read and written by _start_agent() alone.
OperatorEdits(f) ==
    /\ UNCHANGED <<yamlVars, xmlVars, toolVars, peerVars>>
    /\ UNCHANGED cmd
    /\ node.agent_dir
    /\ pc = "idle"
    /\ \/ f = "address.yaml" /\ address_yaml # "edited" /\ address_yaml' = "edited"
          /\ log4j' = log4j
       \/ f = "log4j.properties" /\ log4j # "edited" /\ log4j' = "edited"
          /\ address_yaml' = address_yaml
    /\ UNCHANGED <<cluster, node, alive, ready, pid, spawned, launcher, agents,
                   agentsSpawned, agentPidFile, noticed, pc, op, opts, proc, marks, ret,
                   events, calls>>

AgentExit(a) ==
    /\ UNCHANGED <<yamlVars, xmlVars, toolVars, peerVars>>
    /\ UNCHANGED agentFiles
    /\ UNCHANGED cmd
    /\ a \in agents
    /\ agents' = agents \ {a}
    /\ UNCHANGED <<cluster, node, alive, ready, pid, spawned, launcher, agentsSpawned,
                   agentPidFile, noticed, pc, op, opts, proc, marks, ret, events, calls>>

Next ==
    \/ \E a \in StartArgs, busy \in SUBSET Bound :
            /\ a.replace_address = "None" \/ busy = {}
            /\ start(a, busy)
    \/ \E up \in SUBSET Peers : start_launch(up)
    \/ start_update_pid
    \/ start_wait_other_notice
    \/ start_wait_for_binary_proto
    \/ start_return
    \/ \E a \in StopArgs : stop(a)
    \/ stop_node
    \/ stop_agent_step
    \/ \E p \in 1..MaxProcs : ProcExit(p)
    \/ \E p \in 1..MaxProcs : ProcReady(p)
    \/ \E n \in Peers : PeerNotice(n)
    \/ \E a \in 1..MaxProcs : AgentWritePid(a)
    \/ \E a \in 1..MaxProcs : AgentExit(a)
    \/ \E f \in {"address.yaml", "log4j.properties"} : OperatorEdits(f)

Spec == Init /\ [][Next]_vars

(***************************************************************************)
(* The command line and the environment of start(), and the tool runners:  *)
(* SpecLaunch follows start() in a cluster without opscenter, with         *)
(* set_workload() and the tool runners between the calls and no stop().    *)
(***************************************************************************)

\* set_workload(), lines 53-55 (Node._update_config() saves the node's settings).
set_workload(workload) ==
    /\ UNCHANGED <<yamlVars, xmlVars, toolVars, peerVars>>
    /\ pc = "idle"
    /\ node' = [node EXCEPT !.workload = workload]
    /\ UNCHANGED <<cluster, alive, ready, pid, spawned, launcher, agents, agentsSpawned,
                   agentPidFile, agentFiles, noticed, pc, op, opts, proc, marks, ret,
                   events, calls, cmd>>

\* Whether the tool runner t raises the ArgumentError of lines 284-285, 294-295
\* and 304-305: kinit, klist and kdestroy do when the cluster has no kerberos.
ToolRefused(t) == t \in KerberosTools /\ cluster.authn # "kerberos"

(***************************************************************************)
(* A tool runner (lines 234-311) is called: kinit, klist and kdestroy      *)
(* first look at cluster.authn; then the process is spawned                *)
(* (subprocess.Popen) and waited on.                                       *)
(***************************************************************************)
tool_start(t) ==
    /\ UNCHANGED <<yamlVars, xmlVars, peerVars>>
    /\ pc = "idle"
    /\ calls < MaxCalls
    /\ calls' = calls + 1
    /\ op' = t
    /\ events' = <<>>
    /\ tool_exit' = "none"
    /\ IF ToolRefused(t)
       THEN /\ ret' = "ArgumentError"
            /\ tool_proc' = "none"
            /\ pc' = "idle"
       ELSE /\ ret' = "running"
            /\ tool_proc' = "running"
            /\ pc' = "tool_wait"
    /\ UNCHANGED <<cluster, node, alive, ready, pid, spawned, launcher, agents,
                   agentsSpawned, agentPidFile, agentFiles, noticed, opts, proc, marks,
                   cmd>>

\* The process of the tool exits with a code.
ToolExits(code) ==
    /\ UNCHANGED <<lifeVars, yamlVars, xmlVars, peerVars>>
    /\ tool_proc = "running"
    /\ tool_proc' = "exited"
    /\ tool_exit' = code

(***************************************************************************)
(* p.wait() returns once the process has exited; its value is dropped and  *)
(* the runner ends without a return statement: it returns None.            *)
(***************************************************************************)
tool_return ==
    /\ UNCHANGED <<yamlVars, xmlVars, peerVars>>
    /\ pc = "tool_wait"
    /\ tool_proc = "exited"
    /\ pc' = "idle"
    /\ ret' = "None"
    /\ tool_proc' = "none"
    /\ tool_exit' = "none"
    /\ UNCHANGED <<cluster, node, alive, ready, pid, spawned, launcher, agents,
                   agentsSpawned, agentPidFile, agentFiles, noticed, op, opts, proc,
                   marks, events, calls, cmd>>

InitLaunch ==
    LifeInit /\ ~cluster.hasOpscenter /\ ToolIdle /\ PeersIdle /\ YamlIdle /\ XmlIdle

NextLaunch ==
    \/ \E a \in StartArgs, busy \in SUBSET Bound :
            /\ a.replace_address = "None" \/ busy = {}
            /\ start(a, busy)
    \/ \E up \in SUBSET Peers : start_launch(up)
    \/ start_update_pid
    \/ start_wait_other_notice
    \/ start_wait_for_binary_proto
    \/ start_return
    \/ \E w \in Workloads : set_workload(w)
    \/ \E t \in Tools : tool_start(t)
    \/ \E code \in ExitCodes : ToolExits(code)
    \/ tool_return
    \/ \E p \in 1..MaxProcs : ProcExit(p)
    \/ \E p \in 1..MaxProcs : ProcReady(p)
    \/ \E n \in Peers : PeerNotice(n)

SpecLaunch == InitLaunch /\ [][NextLaunch]_vars

(***************************************************************************)
(* Properties of the command line, the environment and the tool runners,   *)
(* checked under SpecLaunch.                                               *)
(***************************************************************************)

\* The step in which a tool runner returns.
ToolReturns == pc = "tool_wait" /\ pc' = "idle"

\* The step in which start() spawns the node's process.
StartSpawns == pc = "check" /\ pc' = "update_pid"

(***************************************************************************)
(* C16.  A tool runner returns only once the process it spawned has        *)
(* exited, and what it returns is the exit code of that process.           *)
(***************************************************************************)
C16_ToolReturnsExitCode ==
    [][ToolReturns => (tool_proc = "exited" /\ ret' = tool_exit)]_vars

(***************************************************************************)
(* C17.  In a cluster with kerberos the environment start() gives to the   *)
(* node's process has JVM_OPTS and KRB5_CONFIG pointing at the cluster's   *)
(* krb5.conf; in a cluster without, it is the environment make_dse_env()   *)
(* made, with no entry set by start().  kinit, klist and kdestroy called   *)
(* in a cluster without kerberos raise ArgumentError and spawn no process, *)
(* and spawn one only in a cluster with kerberos.                          *)
(***************************************************************************)
C17_KerberosEnvironmentAndTools ==
    [][/\ StartSpawns
            => IF cluster.authn = "kerberos"
               THEN /\ {"JVM_OPTS", "KRB5_CONFIG"} \subseteq DOMAIN cmd'.env
                    /\ cmd'.env["JVM_OPTS"] = Krb5JvmOpts
                    /\ cmd'.env["KRB5_CONFIG"] = Krb5Config
               ELSE cmd'.env = BaseEnv
       /\ (pc = "idle" /\ calls' = calls + 1 /\ op' \in KerberosTools)
            => IF cluster.authn = "kerberos"
               THEN tool_proc' = "running" /\ ret' = "running"
               ELSE /\ ret' = "ArgumentError"
                    /\ pc' = "idle"
                    /\ tool_proc' = "none"
                    /\ UNCHANGED <<alive, spawned, agents, agentsSpawned>>]_vars

\* In a cluster with kerberos the process of a start() has been given the two
\* entries.
C17_Witness ==
    /\ cluster.authn = "kerberos"
    /\ op = "start"
    /\ pc = "update_pid"
    /\ proc \in alive
    /\ cmd.env = [DSE_HOME |-> "install", JVM_OPTS |-> Krb5JvmOpts,
                  KRB5_CONFIG |-> Krb5Config]

(***************************************************************************)
(* C18.  The command line start() gives to the node's process has -t       *)
(* exactly when the workload holds hadoop, -s exactly when it holds solr,  *)
(* -k exactly when it holds spark and -c exactly when it holds cfs; with   *)
(* no workload it has none of the four.                                    *)
(***************************************************************************)
C18_WorkloadFlags ==
    proc # None
        => /\ Has(cmd.args, "-t") <=> (~node.workload.none /\ "hadoop" \in node.workload.tags)
           /\ Has(cmd.args, "-s") <=> (~node.workload.none /\ "solr" \in node.workload.tags)
           /\ Has(cmd.args, "-k") <=> (~node.workload.none /\ "spark" \in node.workload.tags)
           /\ Has(cmd.args, "-c") <=> (~node.workload.none /\ "cfs" \in node.workload.tags)

\* A node with the workload {solr, spark} has been started with -s and -k and
\* neither -t nor -c.
C18_Witness ==
    /\ proc \in alive
    /\ node.workload = [none |-> FALSE, tags |-> {"solr", "spark"}]
    /\ Has(cmd.args, "-s")
    /\ Has(cmd.args, "-k")
    /\ ~Has(cmd.args, "-t")
    /\ ~Has(cmd.args, "-c")

(***************************************************************************)
(* Properties of the lifecycle, checked under Spec.                        *)
(***************************************************************************)

\* The step in which start() makes its precondition checks.
StartChecks == pc = "check" /\ pc' # "check"

\* The step in which start() is past the spawn and comes to the pid update.
StartUpdatesPid == pc = "update_pid" /\ pc' # "update_pid"

\* The step in which start() returns without an error.
StartSucceeds == op = "start" /\ pc = "return" /\ pc' = "idle" /\ ret' = "ok"

\* The last call was a start() that has returned.
StartReturned == op = "start" /\ pc = "idle"

\* The last call was a stop() that has returned.
StopReturned == op = "stop" /\ pc = "idle"

(***************************************************************************)
(* C1.  A start() that comes to its checks while the recorded pid is live  *)
(* raises AlreadyRunning, and one called without a replace address while a *)
(* bound interface has a conflicting listener raises PortUnavailable; the  *)
(* step that raises either spawns no process, leaves the launcher copy,    *)
(* the recorded pid and the pid file of the agent as they were and starts  *)
(* no agent.                                                               *)
(***************************************************************************)
C1_PreconditionsRaiseBeforeAnyEffect ==
    [][(StartChecks /\ (is_running \/ (opts.args.replace_address = "None"
                                         /\ \E itf \in opts.busy :
                                                node.network_interfaces[itf] # "None")))
        => /\ ret' = IF is_running THEN "AlreadyRunning" ELSE "PortUnavailable"
           /\ pc' = "idle"
           /\ events' = <<>>
           /\ UNCHANGED <<alive, spawned, launcher, pid, agents, agentsSpawned,
                          agentPidFile>>]_vars

\* A second start(), on a node that the first left running, has raised
\* AlreadyRunning and spawned nothing.
C1_Witness ==
    /\ StartReturned
    /\ ret = "AlreadyRunning"
    /\ is_running
    /\ events = <<>>
    /\ calls = 2
    /\ spawned = 1

(***************************************************************************)
(* C2 as claimed.  Whatever the options, a start() that returns without an *)
(* error has recorded the pid of the process and found it alive after the  *)
(* waits it was asked for.                                                 *)
(***************************************************************************)
C2_AliveAfterEveryWait ==
    [][StartSucceeds
        => /\ pid = proc
           /\ Has(events, "alive")
           /\ IndexOf(events, "alive") > IndexOf(events, "wait_other")
           /\ IndexOf(events, "alive") > IndexOf(events, "wait_binary")]_vars

(***************************************************************************)
(* C2 as amended.  Under update_pid, start() records the pid of the        *)
(* process and looks at its liveness once, right after the drain or the    *)
(* sleep and before the wait_other_notice and wait_for_binary_proto waits: *)
(* it raises StartFailed exactly when the process is not alive then, and   *)
(* returns without an error only if it was.  Without update_pid it records *)
(* no pid and never looks at the liveness.                                 *)
(***************************************************************************)
C2_AliveAtThePidUpdate ==
    [][/\ (StartUpdatesPid /\ opts.args.update_pid)
            => /\ pid' = proc
               /\ IF proc \in alive
                  THEN pc' # "idle" /\ ret' = "running" /\ Has(events', "alive")
                  ELSE pc' = "idle" /\ ret' = "StartFailed" /\ Has(events', "dead")
       /\ (StartUpdatesPid /\ ~opts.args.update_pid)
            => /\ pid' = pid
               /\ pc' # "idle"
               /\ ret' = "running"
               /\ events' = events
       /\ (ret' = "StartFailed" /\ ret # "StartFailed")
            => StartUpdatesPid /\ opts.args.update_pid
       /\ (StartSucceeds /\ opts.args.update_pid)
            => /\ pid = proc
               /\ Has(events, "alive")
               /\ Has(events, "wait_other")
                    => IndexOf(events, "alive") < IndexOf(events, "wait_other")
               /\ Has(events, "wait_binary")
                    => IndexOf(events, "alive") < IndexOf(events, "wait_binary")
       /\ (StartSucceeds /\ ~opts.args.update_pid)
            => ~Has(events, "pid") /\ ~Has(events, "alive")]_vars

\* A start() with update_pid and both waits has returned without an error, and
\* the process, alive at the pid update, is dead.
C2_Witness ==
    /\ StartReturned
    /\ ret = "ok"
    /\ Has(events, "alive")
    /\ Has(events, "wait_other")
    /\ Has(events, "wait_binary")
    /\ pid = spawned
    /\ pid \notin alive

(***************************************************************************)
(* C3.  After a start() that raised an error the node is not running.      *)
(* (Stated for the errors of a start() that found the node not running:    *)
(* one that raises AlreadyRunning leaves the node as it was.)              *)
(***************************************************************************)
C3_FailedStartLeavesNodeStopped ==
    (StartReturned /\ ret \notin {"ok", "AlreadyRunning"}) => ~is_running

C5_StopWithoutAgentDirectory ==
    (StopReturned /\ ~node.agent_dir)
        => /\ ret = "ok"
           /\ ~Has(events, "agent_read")
           /\ ~Has(events, "agent_signal")
           /\ ~Has(events, "agent_remove")
           /\ ~is_running

(***************************************************************************)
(* C6.  A start() whose node process was started and found alive returns   *)
(* without an error whatever happens to the agent start: no error of       *)
(* _start_agent leaves start().                                            *)
(***************************************************************************)
C6_AgentFailureNotPropagated ==
    (StartReturned /\ Has(events, "alive")) => ret = "ok"

\* The step in which stop() calls _stop_agent().
StopsAgent == pc = "stop_agent" /\ pc' # "stop_agent"

(***************************************************************************)
(* C14.  The _stop_agent() of a node that has its agent directory raises   *)
(* nothing.  Without a pid file it signals no process and removes no file. *)
(* With one, the pid in it is sent SIGKILL, whether its process is alive   *)
(* or gone, and the file is removed after the signal.                      *)
(***************************************************************************)
C14_StopAgentByPidFile ==
    [][(StopsAgent /\ node.agent_dir)
        => /\ ret' = "ok"
           /\ agentPidFile' = None
           /\ IF agentPidFile = None
              THEN /\ agents' = agents
                   /\ events' = Append(events, "agent_stop")
              ELSE /\ agents' = agents \ {agentPidFile}
                   /\ Has(events', "agent_signal")
                   /\ IndexOf(events', "agent_signal") < IndexOf(events', "agent_remove")
                   /\ Has(events', "agent_gone") <=> agentPidFile \notin agents]_vars

\* A stop() has signalled an agent that was gone already, passed over the error
\* and removed the pid file.
C14_Witness ==
    /\ StopReturned
    /\ ret = "ok"
    /\ node.agent_dir
    /\ Has(events, "agent_gone")
    /\ Has(events, "agent_remove")
    /\ agentPidFile = None

\* The step in which start() is past its waits and comes to the agent start.
StartsAgent == pc = "return" /\ pc' # "return" /\ cluster.hasOpscenter

(***************************************************************************)
(* C15.  No step of start() or stop() changes an address.yaml that is      *)
(* there.  The _start_agent() of a node with its agent directory leaves    *)
(* address.yaml there and writes log4j.properties anew whatever it held    *)
(* (unless the conf directory cannot be written, when it writes nothing),  *)
(* and then spawns the agent; that of a node without the directory writes  *)
(* nothing and spawns nothing.                                             *)
(***************************************************************************)
C15_AddressOnceLog4jAlways ==
    [][/\ (pc' # pc /\ address_yaml # "none") => address_yaml' = address_yaml
       /\ (StartsAgent /\ node.agent_dir /\ node.agent_fault # "conf")
            => /\ address_yaml' = IF address_yaml = "none" THEN "generated"
                                  ELSE address_yaml
               /\ log4j' = "generated"
               /\ node.agent_fault = "none"
                    => agentsSpawned' = agentsSpawned + 1 /\ ret' = "ok"
       /\ (StartsAgent /\ node.agent_dir /\ node.agent_fault = "conf")
            => UNCHANGED <<address_yaml, log4j, agents, agentsSpawned>>
       /\ (StartsAgent /\ ~node.agent_dir)
            => /\ UNCHANGED <<address_yaml, log4j, agents, agentsSpawned>>
               /\ address_yaml = "none"
               /\ ret' = "ok"]_vars

\* A second agent start has kept the address.yaml that the operator edited after
\* the first and has written log4j.properties anew.
C15_Witness ==
    /\ StartReturned
    /\ ret = "ok"
    /\ agentsSpawned = 2
    /\ Has(events, "agent_spawn")
    /\ address_yaml = "edited"
    /\ log4j = "generated"

(***************************************************************************)
(* C19.  An agent process that start() spawned is alive only while a       *)
(* process of the node is.                                                 *)
(***************************************************************************)
C19_AgentAliveOnlyWhileNodeRuns ==
    agents # {} => alive # {}

(***************************************************************************)
(* C20.  At most one agent process spawned for the node is alive at a      *)
(* time.                                                                   *)
(***************************************************************************)
C20_AtMostOneAgent ==
    Cardinality(agents) <= 1

(***************************************************************************)
(* The peers of the node: SpecPeers follows start() in a cluster of three  *)
(* nodes without opscenter, whose two other nodes start and stop at any    *)
(* time.  Line 119 reads node.is_running() of every node of the cluster;   *)
(* the node itself is not running there (line 111 has just found so).      *)
(***************************************************************************)
ThreeNodePeers == {"node2", "node3"}

\* Another node of the cluster is started: its is_running() holds from now on.
PeerStarts(n) ==
    /\ UNCHANGED <<lifeVars, toolVars, yamlVars, xmlVars>>
    /\ n \notin peers_up
    /\ peers_up' = peers_up \cup {n}

\* Another node of the cluster is stopped, or dies.
PeerStops(n) ==
    /\ UNCHANGED <<lifeVars, toolVars, yamlVars, xmlVars>>
    /\ n \in peers_up
    /\ peers_up' = peers_up \ {n}

InitPeers ==
    /\ LifeInit /\ ~cluster.hasOpscenter /\ cluster.authn = "none"
    /\ peers_up \in SUBSET ThreeNodePeers
    /\ ToolIdle /\ YamlIdle /\ XmlIdle

NextPeers ==
    \/ \E a \in StartArgs, busy \in SUBSET Bound :
            /\ a.replace_address = "None" \/ busy = {}
            /\ start(a, busy)
    \/ start_launch(peers_up)
    \/ start_update_pid
    \/ start_wait_other_notice
    \/ start_wait_for_binary_proto
    \/ start_return
    \/ \E p \in 1..MaxProcs : ProcExit(p)
    \/ \E p \in 1..MaxProcs : ProcReady(p)
    \/ \E n \in ThreeNodePeers : PeerNotice(n)
    \/ \E n \in ThreeNodePeers : PeerStarts(n)
    \/ \E n \in ThreeNodePeers : PeerStops(n)

SpecPeers == InitPeers /\ [][NextPeers]_vars

\* A step inside start() after the spawn that neither returns nor raises.
StartGoesOn == op = "start" /\ pc \notin {"idle", "check"} /\ pc' # "idle"

(***************************************************************************)
(* C21.  With wait_other_notice set, start() marks the log of exactly the  *)
(* peers that are running, before it spawns the node process and with no   *)
(* peer's log yet read; the marks stay as they are for the rest of the     *)
(* call, whichever peers start or stop in the meantime; the only logs that *)
(* are watched are those of marked peers; and when start() returns with    *)
(* success it has made the wait, and every marked peer's log shows, after  *)
(* its mark, this node alive.                                              *)
(***************************************************************************)
C21_WaitsForThePeersRunningAtTheMarks ==
    [][ /\ (StartSpawns /\ opts.args.wait_other_notice) =>
              /\ marks' = peers_up
              /\ noticed' = {}
              /\ Has(events', "mark")
              /\ IndexOf(events', "mark") < IndexOf(events', "spawn")
        /\ StartGoesOn => marks' = marks
        /\ noticed' \subseteq marks'
        /\ (StartSucceeds /\ opts.args.wait_other_notice) =>
              /\ Has(events, "wait_other")
              /\ marks \subseteq noticed
      ]_vars

\* start() is about to return with success under wait_other_notice: node2 was
\* running when the marks were taken and its log has shown the node alive, node3
\* was not, is running by now, and its log was never waited on.
C21_Witness ==
    /\ op = "start"
    /\ pc = "return"
    /\ proc \in alive
    /\ opts.args.wait_other_notice
    /\ Has(events, "wait_other")
    /\ marks = {"node2"}
    /\ noticed = {"node2"}
    /\ peers_up = {"node2", "node3"}

(***************************************************************************)
(* dse.yaml and the override options.                                      *)
(*                                                                         *)
(* A YAML value is a string scalar, null (Python's None) or a mapping; a   *)
(* document is the mapping yaml.load returns, from key to value.           *)
(* yaml.safe_dump followed by yaml.load gives back an equal mapping for    *)
(* mappings of strings, nulls and mappings, which is all the model holds,  *)
(* so the file is held as that mapping.  In an options dict a None value   *)
(* is the deletion marker.                                                 *)
(***************************************************************************)
ScalarV(x) == [t |-> "scalar", s |-> x, m |-> <<>>]
NullV == [t |-> "null", s |-> "", m |-> <<>>]
DictV(f) == [t |-> "dict", s |-> "", m |-> f]

\* The functions from a subset of K to V.
PartialFns(K, V) == UNION {[D -> V] : D \in SUBSET K}

\* Python's d[k] = v and del d[k] (of a key that is there or not).
Put(d, k, v) == [j \in DOMAIN d \cup {k} |-> IF j = k THEN v ELSE d[j]]
Del(d, k) == [j \in DOMAIN d \ {k} |-> d[j]]

\* Update with the dict of the file replaced by the value's, not laid under it.
UpdateReplaces(d, v) == v

\* The inner loop of lines 352-353: d[option] = v[option] for each option of v.
Update(d, v) == [j \in DOMAIN d \cup DOMAIN v |-> IF j \in DOMAIN v THEN v[j] ELSE d[j]]

\* Line 338: os.path.join(self.get_path(), 'keys').
SystemKeyDirectory == ScalarV("keys")

\* Line 338: data['system_key_directory'] is set, whatever the options name.
SetSystemKeyDirectory(data) == Put(data, "system_key_directory", SystemKeyDirectory)

\* The documents and the options the model draws from.
SubKeys == {"x", "y"}
DocLeaves == {ScalarV("d"), NullV}
OptLeaves == {ScalarV("o"), NullV}
DocValues == DocLeaves \cup {DictV(f) : f \in PartialFns(SubKeys, DocLeaves)}
OptValues == OptLeaves \cup {DictV(f) : f \in PartialFns(SubKeys, OptLeaves)}

Documents ==
    {d \in PartialFns({"a", "system_key_directory"}, DocValues) :
        "system_key_directory" \in DOMAIN d => d["system_key_directory"] = ScalarV("d")}

NodeOptions ==
    {o \in PartialFns({"a", "system_key_directory"}, OptValues) :
        "system_key_directory" \in DOMAIN o => o["system_key_directory"] \in OptLeaves}

ClusterOptions ==
    PartialFns({"a"}, {NullV, ScalarV("c"), DictV([x |-> ScalarV("c")])})

\* full_options with the cluster's options laid over the node's.
full_options_cluster_wins(c, n) ==
    [k \in DOMAIN c \cup DOMAIN n |-> IF k \in DOMAIN c THEN c[k] ELSE n[k]]

(***************************************************************************)
(* Line 340: the node's options laid over the cluster's.                   *)
(***************************************************************************)
full_options(c, n) ==
    [k \in DOMAIN c \cup DOMAIN n |-> IF k \in DOMAIN n THEN n[k] ELSE c[k]]

\* MergeOption with one try block around the three cases, so that the KeyError
\* of deleting a key that is not there ends in the insert of line 357.
MergeOptionOneTry(data, name, value) ==
    IF name \notin DOMAIN data
    THEN [data |-> Put(data, name, value), err |-> "ok"]
    ELSE IF value.t = "null"
    THEN [data |-> Del(data, name), err |-> "ok"]
    ELSE IF data[name].t = "dict"
    THEN IF value.t = "dict"
         THEN [data |-> Put(data, name, DictV(Update(data[name].m, value.m))),
               err |-> "ok"]
         ELSE [data |-> data, err |-> "TypeError"]
    ELSE [data |-> Put(data, name, value), err |-> "ok"]

(***************************************************************************)
(* Lines 342-357, the body of the loop for one name of full_options.       *)
(* A None value deletes the key (no error when it is not there).  Else,    *)
(* when data[name] is a dict, the value is iterated and indexed, option by *)
(* option: a dict value is laid over data[name] one level deep, its own    *)
(* values (None included) stored as they are; a non-empty string value     *)
(* raises TypeError at value[option].  Else, and when the key is not       *)
(* there, the value replaces what is there.                                *)
(***************************************************************************)
MergeOption(data, name, value) ==
    IF value.t = "null"
    THEN [data |-> Del(data, name), err |-> "ok"]
    ELSE IF name \in DOMAIN data /\ data[name].t = "dict"
    THEN IF value.t = "dict"
         THEN [data |-> Put(data, name, DictV(Update(data[name].m, value.m))),
               err |-> "ok"]
         ELSE [data |-> data, err |-> "TypeError"]
    ELSE [data |-> Put(data, name, value), err |-> "ok"]

(***************************************************************************)
(* Lines 341-357: the loop over the names of full_options, which ends at   *)
(* the first error.                                                        *)
(***************************************************************************)
RECURSIVE MergeOptions(_, _, _)
MergeOptions(data, full, names) ==
    IF names = {}
    THEN [data |-> data, err |-> "ok"]
    ELSE LET name == CHOOSE n \in names : TRUE
             r == MergeOption(data, name, full[name])
         IN  IF r.err # "ok" THEN r ELSE MergeOptions(r.data, full, names \ {name})

(***************************************************************************)
(* _update_dse_yaml(), lines 333-360, on the file's mapping: the file is   *)
(* written (359-360) only when the loop raised nothing.                    *)
(***************************************************************************)
update_dse_yaml(file, c, n) ==
    LET full == full_options(c, n)
        r == MergeOptions(SetSystemKeyDirectory(file), full, DOMAIN full)
    IN  IF r.err = "ok" THEN [file |-> r.data, err |-> "ok"]
        ELSE [file |-> file, err |-> r.err]

\* The lifecycle at rest, for the specifications of the two merges.
LifeIdle ==
    /\ LifeInit /\ ~cluster.hasOpscenter /\ ~node.agent_dir /\ cluster.authn = "none"
    /\ ToolIdle /\ PeersIdle

InitYaml ==
    /\ LifeIdle
    /\ XmlIdle
    /\ conf_file \in Documents
    /\ install_conf = <<>>
    /\ cluster_options \in ClusterOptions
    /\ node_options \in NodeOptions
    /\ yaml_base = conf_file
    /\ yaml_once = conf_file
    /\ yaml_err = "ok"
    /\ yaml_runs = 0

\* One call of _update_dse_yaml().
UpdateDseYaml ==
    /\ yaml_runs < MaxRuns
    /\ LET r == update_dse_yaml(conf_file, cluster_options, node_options) IN
       /\ conf_file' = r.file
       /\ yaml_err' = r.err
       /\ yaml_once' = IF yaml_runs = 0 THEN r.file ELSE yaml_once
    /\ yaml_runs' = yaml_runs + 1
    /\ UNCHANGED <<install_conf, cluster_options, node_options, yaml_base>>
    /\ UNCHANGED <<lifeVars, xmlVars, toolVars, peerVars>>

NextYaml == UpdateDseYaml

SpecYaml == InitYaml /\ [][NextYaml]_vars

(***************************************************************************)
(* Properties of the dse.yaml merge, checked under SpecYaml.               *)
(***************************************************************************)

\* The mapping the claimed merge gives: a deletion marker removes the key, two
\* mappings are merged by the same rules, anything else replaces the value.
RECURSIVE RefMerge(_, _)
RefMerge(d, o) ==
    LET deleted == {k \in DOMAIN o : o[k].t = "null"} IN
    [k \in (DOMAIN d \cup DOMAIN o) \ deleted |->
        IF k \notin DOMAIN o THEN d[k]
        ELSE IF k \in DOMAIN d /\ d[k].t = "dict" /\ o[k].t = "dict"
             THEN DictV(RefMerge(d[k].m, o[k].m))
             ELSE o[k]]

(***************************************************************************)
(* C7.  Applying the layered options to dse.yaml a second time leaves the  *)
(* file as the first application left it.                                  *)
(***************************************************************************)
C7_YamlMergeIdempotent ==
    yaml_runs >= 2 => conf_file = yaml_once

\* Options that delete, replace and merge have been applied twice to a file
\* that the first application changed.
C7_Witness ==
    /\ yaml_runs = 2
    /\ yaml_err = "ok"
    /\ "a" \in DOMAIN yaml_base
    /\ yaml_base["a"].t = "dict"
    /\ "a" \in DOMAIN node_options
    /\ node_options["a"].t = "dict"
    /\ node_options["a"].m # <<>>
    /\ "system_key_directory" \in DOMAIN node_options
    /\ node_options["system_key_directory"].t = "null"
    /\ conf_file # Put(yaml_base, "system_key_directory", SystemKeyDirectory)
    /\ conf_file = yaml_once

(***************************************************************************)
(* C10.  _update_dse_yaml() raises nothing and leaves in dse.yaml the      *)
(* reference merge of the layered options into the document: deletion      *)
(* markers remove keys, mappings are merged recursively, anything else is  *)
(* replaced wholesale.                                                     *)
(***************************************************************************)
C10_YamlMergeIsReferenceMerge ==
    yaml_runs >= 1
        => /\ yaml_err = "ok"
           /\ yaml_once = RefMerge(Put(yaml_base, "system_key_directory",
                                       SystemKeyDirectory),
                                   full_options(cluster_options, node_options))

\* The sub-keys of the file's mapping at k that the option's mapping at k leaves
\* unnamed are in doc's mapping at k with the values the file had.
SubKeysKept(base, o, doc, k) ==
    (k \in DOMAIN base /\ base[k].t = "dict" /\ o[k].t = "dict")
        => /\ k \in DOMAIN doc
           /\ doc[k].t = "dict"
           /\ \A sub \in DOMAIN base[k].m \ DOMAIN o[k].m :
                    /\ sub \in DOMAIN doc[k].m
                    /\ doc[k].m[sub] = base[k].m[sub]

\* The top-level keys of the file outside Named are in doc with the values the
\* file had.
KeysKept(base, doc, Named) ==
    \A k \in DOMAIN base \ Named : k \in DOMAIN doc /\ doc[k] = base[k]

(***************************************************************************)
(* C11 as claimed.  After _update_dse_yaml() every top-level key of        *)
(* dse.yaml that the layered options do not name has the value it had, and *)
(* so has every sub-key of a merged mapping that the option's mapping does *)
(* not name.                                                               *)
(***************************************************************************)
C11_OnlyNamedKeysChange ==
    yaml_runs >= 1
        => LET full == full_options(cluster_options, node_options) IN
           /\ KeysKept(yaml_base, yaml_once, DOMAIN full)
           /\ \A k \in DOMAIN full : SubKeysKept(yaml_base, full, yaml_once, k)

(***************************************************************************)
(* C11 as amended.  After _update_dse_yaml() every top-level key of        *)
(* dse.yaml other than system_key_directory that the layered options do    *)
(* not name has the value it had, and so has every sub-key of a merged     *)
(* mapping that the option's mapping does not name; system_key_directory   *)
(* is set to the node's keys directory whenever the options do not name    *)
(* it and the merge raises nothing.                                        *)
(***************************************************************************)
C11_OnlyNamedKeysAndKeyDirectoryChange ==
    yaml_runs >= 1
        => LET full == full_options(cluster_options, node_options) IN
           /\ KeysKept(yaml_base, yaml_once, DOMAIN full \cup {"system_key_directory"})
           /\ \A k \in DOMAIN full : SubKeysKept(yaml_base, full, yaml_once, k)
           /\ ("system_key_directory" \notin DOMAIN full /\ yaml_err = "ok")
                => /\ "system_key_directory" \in DOMAIN yaml_once
                   /\ yaml_once["system_key_directory"] = SystemKeyDirectory

\* A mapping option has been merged into a mapping of the file that has a
\* sub-key the option does not name, and the file has changed.
C11_Witness ==
    /\ yaml_runs >= 1
    /\ yaml_err = "ok"
    /\ "a" \in DOMAIN yaml_base
    /\ yaml_base["a"].t = "dict"
    /\ "a" \in DOMAIN node_options
    /\ node_options["a"].t = "dict"
    /\ DOMAIN yaml_base["a"].m \ DOMAIN node_options["a"].m # {}
    /\ DOMAIN node_options["a"].m \ DOMAIN yaml_base["a"].m # {}
    /\ "system_key_directory" \notin DOMAIN node_options
    /\ yaml_once["a"] # yaml_base["a"]

\* doc carries the outcome of the option value v for the key k: k is not there
\* when v is the deletion marker, k has the value v when v is a scalar, and k is a
\* mapping with every entry of v when v is a mapping.
CarriesOutcome(doc, k, v) ==
    IF v.t = "null" THEN k \notin DOMAIN doc
    ELSE IF v.t = "scalar" THEN k \in DOMAIN doc /\ doc[k] = v
    ELSE /\ k \in DOMAIN doc
         /\ doc[k].t = "dict"
         /\ \A sub \in DOMAIN v.m : sub \in DOMAIN doc[k].m /\ doc[k].m[sub] = v.m[sub]

\* doc has at k nothing of the mapping v that neither the mapping w nor the file
\* had: an entry of v alone is not in doc.
NothingOf(doc, base, k, v, w) ==
    \A sub \in DOMAIN v.m :
        (/\ w.t = "dict" => sub \notin DOMAIN w.m
         /\ ~(k \in DOMAIN base /\ base[k].t = "dict" /\ sub \in DOMAIN base[k].m))
            => ~(k \in DOMAIN doc /\ doc[k].t = "dict" /\ sub \in DOMAIN doc[k].m)

import_merge_then_copy(file, install, c, n) ==
    [file |-> install, err |-> update_dse_yaml(file, c, n).err]

(***************************************************************************)
(* import_dse_config_files(), lines 313-318: common.copy_directory() puts  *)
(* the install's dse.yaml in the place of the node's (317), then           *)
(* _update_dse_yaml() merges the options into it (318).  When the merge    *)
(* raises, the copied file stays as it is.                                 *)
(***************************************************************************)
import_dse_config_files(file, install, c, n) ==
    LET copied == install IN update_dse_yaml(copied, c, n)

\* Lines 58-60: self._dse_config_options[k] = v for each (k, v) of values, when
\* values is not None.
set_options(options, given, values) ==
    IF given THEN Update(options, values) ELSE options

InitImport ==
    /\ LifeIdle
    /\ XmlIdle
    /\ conf_file \in Documents
    /\ install_conf \in Documents
    /\ cluster_options \in ClusterOptions
    /\ node_options = <<>>
    /\ yaml_base = <<>>
    /\ yaml_once = <<>>
    /\ yaml_err = "ok"
    /\ yaml_runs = 0

\* One call of set_dse_configuration_options(values), lines 57-61; given is
\* whether values is not None.
SetDseConfigurationOptions(given, values) ==
    /\ yaml_runs < MaxRuns
    /\ node_options' = set_options(node_options, given, values)
    /\ LET r == import_dse_config_files(conf_file, install_conf, cluster_options,
                                        node_options') IN
       /\ conf_file' = r.file
       /\ yaml_err' = r.err
    /\ yaml_runs' = yaml_runs + 1
    /\ UNCHANGED <<install_conf, cluster_options, yaml_base, yaml_once>>
    /\ UNCHANGED <<lifeVars, xmlVars, toolVars, peerVars>>

\* One call of import_dse_config_files().
ImportDseConfigFiles ==
    /\ yaml_runs < MaxRuns
    /\ LET r == import_dse_config_files(conf_file, install_conf, cluster_options,
                                        node_options) IN
       /\ conf_file' = r.file
       /\ yaml_err' = r.err
    /\ yaml_runs' = yaml_runs + 1
    /\ UNCHANGED <<install_conf, cluster_options, node_options, yaml_base, yaml_once>>
    /\ UNCHANGED <<lifeVars, xmlVars, toolVars, peerVars>>

NextImport ==
    \/ \E given \in BOOLEAN, values \in NodeOptions :
            /\ given \/ values = <<>>
            /\ SetDseConfigurationOptions(given, values)
    \/ ImportDseConfigFiles

SpecImport == InitImport /\ [][NextImport]_vars

PropertyNames == {"p", "q"}
FileTexts == {"d", ""}
OverrideValues == {"None", "", "o"}

\* Sequences of at most two properties with distinct names.
PropertyLists(V) ==
    {<<>>}
    \cup {<<[name |-> n, value |-> v]>> : n \in PropertyNames, v \in V}
    \cup {l \in {<<[name |-> n1, value |-> v1], [name |-> n2, value |-> v2]>> :
                    n1 \in PropertyNames, n2 \in PropertyNames, v1 \in V, v2 \in V} :
            l[1].name # l[2].name}

\* Line 71: value is None or len(value) == 0.
IsEmptyValue(v) == v = "None" \/ v = ""

\* The text of a value element as written by line 85 and parsed again by line 65.
WrittenText(v) == IF IsEmptyValue(v) THEN "" ELSE v

\* The sequence without its i-th element.
RemoveAt(seq, i) == [j \in 1..(Len(seq) - 1) |-> IF j < i THEN seq[j] ELSE seq[j + 1]]

\* Line 68: the places of the property elements whose name text is name.
PropertiesNamed(doc, name) == {i \in 1..Len(doc) : doc[i].name = name}

(***************************************************************************)
(* Lines 68-83, the body of the loop for one (name, value): the first      *)
(* property of that name is removed when the value is None or empty, else  *)
(* its value text is set; when there is no property of that name a new one *)
(* is appended, whatever the value.                                        *)
(***************************************************************************)
SetXmlProperty(doc, name, value) ==
    LET properties == PropertiesNamed(doc, name) IN
    IF properties # {}
    THEN LET i == CHOOSE j \in properties : \A k \in properties : j <= k IN
         IF IsEmptyValue(value)
         THEN RemoveAt(doc, i)
         ELSE [doc EXCEPT ![i].value = WrittenText(value)]
    ELSE Append(doc, [name |-> name, value |-> WrittenText(value)])

(***************************************************************************)
(* set_xml_configuration_options(), lines 63-85: the loop over the values, *)
(* in their iteration order, and the file written back.                    *)
(***************************************************************************)
RECURSIVE set_xml_configuration_options(_, _)
set_xml_configuration_options(doc, values) ==
    IF values = <<>> THEN doc
    ELSE set_xml_configuration_options(
             SetXmlProperty(doc, Head(values).name, Head(values).value), Tail(values))

InitXml ==
    /\ LifeIdle
    /\ YamlIdle
    /\ site_xml \in PropertyLists(FileTexts)
    /\ xml_values \in PropertyLists(OverrideValues)
    /\ xml_base = site_xml
    /\ xml_once = site_xml
    /\ xml_runs = 0

\* One call of set_xml_configuration_options().
SetXmlConfigurationOptions ==
    /\ xml_runs < MaxRuns
    /\ site_xml' = set_xml_configuration_options(site_xml, xml_values)
    /\ xml_once' = IF xml_runs = 0 THEN site_xml' ELSE xml_once
    /\ xml_runs' = xml_runs + 1
    /\ UNCHANGED <<xml_values, xml_base>>
    /\ UNCHANGED <<lifeVars, yamlVars, toolVars, peerVars>>

NextXml == SetXmlConfigurationOptions

SpecXml == InitXml /\ [][NextXml]_vars

(***************************************************************************)
(* Properties of the XML merge, checked under SpecXml.                     *)
(***************************************************************************)

\* The rule as claimed for one (name, value): remove, replace in place, append
\* a non-empty value, or leave the list alone.
RefSetXmlProperty(doc, name, value) ==
    LET properties == PropertiesNamed(doc, name) IN
    IF properties # {}
    THEN IF IsEmptyValue(value)
         THEN SelectSeq(doc, LAMBDA e : e.name # name)
         ELSE [j \in 1..Len(doc) |->
                  IF doc[j].name = name THEN [name |-> name, value |-> value] ELSE doc[j]]
    ELSE IF IsEmptyValue(value) THEN doc
         ELSE Append(doc, [name |-> name, value |-> value])

RECURSIVE RefSetXml(_, _)
RefSetXml(doc, values) ==
    IF values = <<>> THEN doc
    ELSE RefSetXml(RefSetXmlProperty(doc, Head(values).name, Head(values).value),
                   Tail(values))

(***************************************************************************)
(* C8.  Applying the same values to an XML property file a second time     *)
(* leaves the file as the first application left it.                       *)
(***************************************************************************)
C8_XmlMergeIdempotent ==
    xml_runs >= 2 => site_xml = xml_once

(***************************************************************************)
(* C9.  For each (name, value), in order: a property of that name is       *)
(* removed when the value is empty or absent and has its value replaced in *)
(* place when it is not; without such a property a non-empty value is      *)
(* appended as a new property and an empty or absent one changes nothing;  *)
(* the other properties keep their values and their order.                 *)
(***************************************************************************)
C9_XmlMergeFollowsTheRule ==
    xml_runs >= 1 => xml_once = RefSetXml(xml_base, xml_values)

====
